---------------------------- MODULE Spec2Model ----------------------------
(***************************************************************************)
(* Model of src/app.js: a two-input Mamdani fuzzy controller (dirt and     *)
(* grease -> washing time) driven by two sliders.                          *)
(*                                                                         *)
(* Numbers.  The JavaScript doubles are modelled as exact rationals:       *)
(*   - a membership degree returned by triangleMf is the pair              *)
(*     <<dividend, divisor>> of the division the code evaluates            *)
(*     (<<0, 1>> for the literal 0);                                       *)
(*   - inside update() every degree is a multiple of 1/DegreeScale, and    *)
(*     is stored as its integer numerator over DegreeScale                 *)
(*     (DegreeScale stands for 1.0);                                       *)
(*   - a point of the output domain is stored in units of 1/XScale minute  *)
(*     (XScale = samples/60 = 2, so the loop step 60/samples is 1 unit);   *)
(*   - the crisp output cog is the fraction [num, den] in minutes.         *)
(* Slider values are integers.                                             *)
(***************************************************************************)
EXTENDS Integers, Sequences, FiniteSets

VARIABLES
    dirtMf, greaseMf, timeMf, rules,      \* the static configuration
    loaded,                               \* the DOMContentLoaded handler has run
    dirtSlider, greaseSlider,             \* dirtSlider.value, greaseSlider.value
    dirtValueSpan, greaseValueSpan,       \* textContent, as an integer
    outputTimeSpan,                       \* textContent, in hundredths
    dirtDegrees, greaseDegrees,           \* locals of the latest update()
    outputActivation,
    aggregatedPoints,
    numerator, denominator, cog,
    dirtChartMarker, greaseChartMarker,   \* datasets[3] of the input charts
    resultChart,                          \* datasets[0] and [1] of the result chart
    mfArgs, mfResult,                     \* one isolated call of triangleMf
    snap                                  \* an earlier invocation, remembered

config == <<dirtMf, greaseMf, timeMf, rules>>
dom == <<dirtValueSpan, greaseValueSpan, outputTimeSpan,
         dirtChartMarker, greaseChartMarker, resultChart>>
locals == <<dirtDegrees, greaseDegrees, outputActivation, aggregatedPoints,
            numerator, denominator, cog>>
vars == <<config, loaded, dirtSlider, greaseSlider, dom, locals,
          mfArgs, mfResult, snap>>

---------------------------------------------------------------------------
(* Bounds of the model *)

\* slider values are 25*k - 100 for k in 0..MaxInputIdx
MaxInputIdx == 16
\* slider values of the history specification are 75*k - 100, k in 0..MaxHistIdx
MaxHistIdx == 3
\* triangle corners of the isolated triangleMf calls are 2*k, k in 0..MaxCoord
MaxCoord == 3

Inputs == {25 * k - 100 : k \in 0..MaxInputIdx}
HistInputs == {75 * k - 100 : k \in 0..MaxHistIdx}
Corners == {2 * k : k \in 0..MaxCoord}
Abscissas == (0 - 1) .. (2 * MaxCoord + 1)

---------------------------------------------------------------------------
(* Configuration *)

dirtMfConfig ==
    [SD |-> <<0 - 100, 0, 100>>, MD |-> <<0, 100, 200>>, LD |-> <<100, 200, 300>>]

greaseMfConfig ==
    [NG |-> <<0 - 100, 0, 100>>, MG |-> <<0, 100, 200>>, LG |-> <<100, 200, 300>>]

timeMfConfig ==
    [VS |-> <<0 - 10, 0, 10>>, S |-> <<0, 10, 25>>, M |-> <<10, 25, 40>>,
     L |-> <<25, 40, 60>>, VL |-> <<40, 60, 70>>]

rulesConfigLastLong ==
    [SD |-> [NG |-> "VS", MG |-> "S", LG |-> "M"],
     MD |-> [NG |-> "S",  MG |-> "M", LG |-> "L"],
     LD |-> [NG |-> "M",  MG |-> "L", LG |-> "L"]]

rulesConfig ==
    [SD |-> [NG |-> "VS", MG |-> "S", LG |-> "M"],
     MD |-> [NG |-> "S",  MG |-> "M", LG |-> "L"],
     LD |-> [NG |-> "M",  MG |-> "L", LG |-> "VL"]]

\* key orders of the for-in loops
dirtSets == <<"SD", "MD", "LD">>
greaseSets == <<"NG", "MG", "LG">>
timeSets == <<"VS", "S", "M", "L", "VL">>

samples == 120
fallback == 30

\* sample points per minute: the loop step 60 / samples is one unit
XScale == samples \div 60

RECURSIVE Gcd(_, _)
Gcd(m, n) == IF n = 0 THEN m ELSE Gcd(n, m % n)

RECURSIVE LcmOf(_)
LcmOf(S) ==
    IF S = {} THEN 1
    ELSE LET w == CHOOSE e \in S : TRUE
             l == LcmOf(S \ {w})
         IN  (l * w) \div Gcd(l, w)

\* the divisors b - a and c - b of the configured triangles, the output
\* variable's in units of 1/XScale minute
Divisors ==
    UNION {{dirtMfConfig[s][2] - dirtMfConfig[s][1],
            dirtMfConfig[s][3] - dirtMfConfig[s][2]} : s \in DOMAIN dirtMfConfig}
    \cup UNION {{greaseMfConfig[s][2] - greaseMfConfig[s][1],
                 greaseMfConfig[s][3] - greaseMfConfig[s][2]} :
                    s \in DOMAIN greaseMfConfig}
    \cup UNION {{XScale * (timeMfConfig[s][2] - timeMfConfig[s][1]),
                 XScale * (timeMfConfig[s][3] - timeMfConfig[s][2])} :
                    s \in DOMAIN timeMfConfig}

\* 1.0 as a fixed-point degree: every degree update() computes on integer
\* slider values and on the sample points is a multiple of 1 / DegreeScale
DegreeScale == LcmOf(Divisors)

---------------------------------------------------------------------------
(* Utility functions *)

Min(a, b) == IF a <= b THEN a ELSE b

triangleMfClosedFeet(x, points) ==
    LET a == points[1]
        b == points[2]
        c == points[3]
    IN  IF x < a \/ x > c THEN <<0, 1>>
        ELSE IF x >= a /\ x <= b THEN <<x - a, b - a>>
        ELSE IF x > b /\ x <= c THEN <<c - x, c - b>>
        ELSE <<0, 1>>

triangleMf(x, points) ==
    LET a == points[1]
        b == points[2]
        c == points[3]
    IN  IF x <= a \/ x >= c THEN <<0, 1>>
        ELSE IF x > a /\ x <= b THEN <<x - a, b - a>>
        ELSE IF x > b /\ x < c THEN <<c - x, c - b>>
        ELSE <<0, 1>>

\* a degree <<n, d>> as a numerator over DegreeScale
Fixed(r) == (r[1] * DegreeScale) \div r[2]

\* a triangle of the output variable in units of 1/XScale minute
InUnits(points) == [i \in 1..3 |-> XScale * points[i]]

\* Number.prototype.toFixed on the rational n/d (d > 0): the integer k with
\* k / 10^digits closest to |n/d|, the larger one on a tie, with the sign
RECURSIVE Pow10(_)
Pow10(digits) == IF digits = 0 THEN 1 ELSE 10 * Pow10(digits - 1)

ToFixed(n, d, digits) ==
    LET mag == IF n < 0 THEN 0 - n ELSE n
        k == (2 * mag * Pow10(digits) + d) \div (2 * d)
    IN  IF n < 0 THEN 0 - k ELSE k

---------------------------------------------------------------------------
(* update(): the stages *)

\* 1. Fuzzification
Fuzzify(value, mf) == [s \in DOMAIN mf |-> Fixed(triangleMf(value, mf[s]))]

\* 2. Rule evaluation
StrengthEither(dDegrees, gDegrees, dirtSet, greaseSet) ==
    IF dDegrees[dirtSet] >= gDegrees[greaseSet]
    THEN dDegrees[dirtSet] ELSE gDegrees[greaseSet]

Strength(dDegrees, gDegrees, dirtSet, greaseSet) ==
    Min(dDegrees[dirtSet], gDegrees[greaseSet])

RecordOverwrite(activation, ruleOutputSet, strength) ==
    [activation EXCEPT ![ruleOutputSet] = strength]

Record(activation, ruleOutputSet, strength) ==
    IF strength > activation[ruleOutputSet]
    THEN [activation EXCEPT ![ruleOutputSet] = strength]
    ELSE activation

StaleActivation ==
    IF loaded THEN outputActivation ELSE [s \in DOMAIN timeMf |-> 0]

FreshActivation == [VS |-> 0, S |-> 0, M |-> 0, L |-> 0, VL |-> 0]

\* the two nested for-in loops, from rule (i, j) on
RECURSIVE EvalRules(_, _, _, _, _)
EvalRules(i, j, activation, dDegrees, gDegrees) ==
    IF i > Len(dirtSets) THEN activation
    ELSE IF j > Len(greaseSets) THEN EvalRules(i + 1, 1, activation, dDegrees, gDegrees)
    ELSE LET dirtSet == dirtSets[i]
             greaseSet == greaseSets[j]
             ruleOutputSet == rules[dirtSet][greaseSet]
             strength == Strength(dDegrees, gDegrees, dirtSet, greaseSet)
         IN  EvalRules(i, j + 1, Record(activation, ruleOutputSet, strength),
                       dDegrees, gDegrees)

\* 3. Aggregation
ClipNone(activationLevel, mfDegree) == mfDegree

Clip(activationLevel, mfDegree) == Min(activationLevel, mfDegree)

\* the inner for-in loop over outputActivation at sample point t, from term k on
RECURSIVE MaxDegreeAt(_, _, _, _)
MaxDegreeAt(t, k, maxDegree, activation) ==
    IF k > Len(timeSets) THEN maxDegree
    ELSE LET timeSet == timeSets[k]
             activationLevel == activation[timeSet]
             mfDegree == Fixed(triangleMf(t, InUnits(timeMf[timeSet])))
             degree == Clip(activationLevel, mfDegree)
         IN  MaxDegreeAt(t, k + 1,
                         IF degree > maxDegree THEN degree ELSE maxDegree,
                         activation)

InDomainOpen(t) == t < 60 * XScale

InDomain(t) == t <= 60 * XScale

\* the for loop over t: t = 0, Step, 2 Step, ... while InDomain(t)
Step == (60 * XScale) \div samples

Iterations ==
    CHOOSE n \in 0..(samples + 2) :
        /\ ~InDomain(n * Step)
        /\ \A k \in 0..(n - 1) : InDomain(k * Step)

Aggregate(activation) ==
    [k \in 1..Iterations |->
        LET t == (k - 1) * Step
        IN  [x |-> t, y |-> MaxDegreeAt(t, 1, 0, activation)]]

\* 4. Defuzzification
MomentUnweighted(p) == p.x * DegreeScale

Moment(p) == p.x * p.y

\* the forEach over aggregatedPoints[lo..hi]; the sums are exact, so the
\* range is summed by halves
RECURSIVE SumMoments(_, _, _)
SumMoments(points, lo, hi) ==
    IF lo > hi THEN 0
    ELSE IF lo = hi THEN Moment(points[lo])
    ELSE LET mid == (lo + hi) \div 2
         IN  SumMoments(points, lo, mid) + SumMoments(points, mid + 1, hi)

RECURSIVE SumDegrees(_, _, _)
SumDegrees(points, lo, hi) ==
    IF lo > hi THEN 0
    ELSE IF lo = hi THEN points[lo].y
    ELSE LET mid == (lo + hi) \div 2
         IN  SumDegrees(points, lo, mid) + SumDegrees(points, mid + 1, hi)

\* numerator / denominator in minutes; den = 0 is NaN
Quotient(num, den) == [num |-> num, den |-> XScale * den]

CentroidNoFallback(num, den) == Quotient(num, den)

Centroid(num, den) ==
    IF den = 0 THEN [num |-> fallback, den |-> 1] ELSE Quotient(num, den)

---------------------------------------------------------------------------
(* update() *)

update ==
    \* dirtValue, greaseValue
    /\ dirtValueSpan' = ToFixed(dirtSlider', 1, 0)
    /\ greaseValueSpan' = ToFixed(greaseSlider', 1, 0)
    \* 1. Fuzzification
    /\ dirtDegrees' = Fuzzify(dirtSlider', dirtMf)
    /\ greaseDegrees' = Fuzzify(greaseSlider', greaseMf)
    \* 2. Rule evaluation
    /\ outputActivation' = EvalRules(1, 1, FreshActivation, dirtDegrees', greaseDegrees')
    \* 3. Aggregation
    /\ aggregatedPoints' = Aggregate(outputActivation')
    \* 4. Defuzzification
    /\ numerator' = SumMoments(aggregatedPoints', 1, Len(aggregatedPoints'))
    /\ denominator' = SumDegrees(aggregatedPoints', 1, Len(aggregatedPoints'))
    /\ cog' = Centroid(numerator', denominator')
    /\ outputTimeSpan' = IF cog'.den = 0 THEN "NaN" ELSE ToFixed(cog'.num, cog'.den, 2)
    \* charts
    /\ dirtChartMarker' = dirtSlider'
    /\ greaseChartMarker' = greaseSlider'
    /\ resultChart' = [surface |-> aggregatedPoints', cog |-> cog']
    /\ UNCHANGED config

---------------------------------------------------------------------------
(* The page: load, then 'input' events on the two sliders *)

\* the page before the DOMContentLoaded handler has run, sliders in `values'
Page(values) ==
    /\ dirtMf = dirtMfConfig
    /\ greaseMf = greaseMfConfig
    /\ timeMf = timeMfConfig
    /\ rules = rulesConfig
    /\ loaded = FALSE
    /\ dirtSlider \in values
    /\ greaseSlider \in values
    /\ dirtValueSpan = ""
    /\ greaseValueSpan = ""
    /\ outputTimeSpan = ""
    /\ dirtDegrees = <<>>
    /\ greaseDegrees = <<>>
    /\ outputActivation = <<>>
    /\ aggregatedPoints = <<>>
    /\ numerator = 0
    /\ denominator = 0
    /\ cog = <<>>
    /\ dirtChartMarker = <<>>
    /\ greaseChartMarker = <<>>
    /\ resultChart = [surface |-> <<>>, cog |-> <<>>]
    /\ snap = <<>>

NoCall ==
    /\ mfArgs = [x |-> 0, points |-> <<0, 0, 0>>]
    /\ mfResult = <<>>

Init == Page(Inputs) /\ NoCall

\* the initial update() at the end of the DOMContentLoaded handler
DOMContentLoaded ==
    /\ ~loaded
    /\ loaded' = TRUE
    /\ UNCHANGED <<dirtSlider, greaseSlider>>
    /\ update
    /\ UNCHANGED <<mfArgs, mfResult>>

\* dirtSlider 'input' listener
DirtInput(v) ==
    /\ loaded
    /\ dirtSlider' = v
    /\ UNCHANGED greaseSlider
    /\ update
    /\ UNCHANGED <<loaded, mfArgs, mfResult>>

\* greaseSlider 'input' listener
GreaseInput(v) ==
    /\ loaded
    /\ greaseSlider' = v
    /\ UNCHANGED dirtSlider
    /\ update
    /\ UNCHANGED <<loaded, mfArgs, mfResult>>

Next ==
    \/ DOMContentLoaded /\ UNCHANGED snap
    \/ \E v \in Inputs : DirtInput(v) /\ UNCHANGED snap
    \/ \E v \in Inputs : GreaseInput(v) /\ UNCHANGED snap

Spec == Init /\ [][Next]_vars

---------------------------------------------------------------------------
(* The same page, with one earlier invocation remembered *)

Invocation ==
    [dirt |-> dirtSlider, grease |-> greaseSlider,
     dirtDegrees |-> dirtDegrees, greaseDegrees |-> greaseDegrees,
     outputActivation |-> outputActivation,
     aggregatedPoints |-> aggregatedPoints, cog |-> cog,
     outputTimeSpan |-> outputTimeSpan]

\* keep the remembered invocation, noting whether the inputs have since
\* moved away from it, or remember the one that just ran
Remember ==
    snap' \in {[k \in DOMAIN snap |->
                  [snap[k] EXCEPT !.left =
                      @ \/ snap[k].inv.dirt # dirtSlider'
                        \/ snap[k].inv.grease # greaseSlider']],
              <<[inv |-> Invocation', left |-> FALSE]>>}

InitHist == Page(HistInputs) /\ NoCall

NextHist ==
    \/ DOMContentLoaded /\ Remember
    \/ \E v \in HistInputs : DirtInput(v) /\ Remember
    \/ \E v \in HistInputs : GreaseInput(v) /\ Remember

SpecHist == InitHist /\ [][NextHist]_vars

---------------------------------------------------------------------------
(* triangleMf alone, on arbitrary triangles a <= b <= c *)

Triangles ==
    {p \in Corners \X Corners \X Corners : p[1] <= p[2] /\ p[2] <= p[3]}

InitTri ==
    /\ Page({0})
    /\ mfArgs \in [x : Abscissas, points : Triangles]
    /\ mfResult = <<>>

CallTriangleMf ==
    /\ mfResult = <<>>
    /\ mfResult' = triangleMf(mfArgs.x, mfArgs.points)
    /\ UNCHANGED <<config, loaded, dirtSlider, greaseSlider, dom, locals,
                   mfArgs, snap>>

NextTri == CallTriangleMf

SpecTri == InitTri /\ [][NextTri]_vars

---------------------------------------------------------------------------
(* Properties *)

SetMax(S) == CHOOSE m \in S : \A e \in S : e <= m
SetMin(S) == CHOOSE m \in S : \A e \in S : m <= e

DirtTerms == {"SD", "MD", "LD"}
GreaseTerms == {"NG", "MG", "LG"}
TimeTerms == {"VS", "S", "M", "L", "VL"}

\* the strength of rule (d, g) in the latest invocation
Fired(d, g) == Strength(dirtDegrees, greaseDegrees, d, g)
ActiveRules == {r \in DirtTerms \X GreaseTerms : Fired(r[1], r[2]) > 0}
AllZero(degrees) == \A s \in DOMAIN degrees : degrees[s] = 0
Activated == {term \in TimeTerms : outputActivation[term] > 0}
Fallback == [num |-> fallback, den |-> 1]

\* C1: after rule evaluation the activation mapping has exactly the five
\* output terms, every entry is in [0,1] and equals the maximum, over the
\* rules concluding that term, of the minimum of the rule's dirt degree and
\* grease degree (0 when none of them has positive strength).
C1_ActivationIsMaxMin ==
    loaded =>
        /\ DOMAIN outputActivation = TimeTerms
        /\ \A term \in TimeTerms :
            /\ outputActivation[term] \in 0..DegreeScale
            /\ outputActivation[term] =
                 SetMax({0} \cup
                        {Min(dirtDegrees[r[1]], greaseDegrees[r[2]]) :
                            r \in {q \in DirtTerms \X GreaseTerms :
                                      rules[q[1]][q[2]] = term}})

\* two rules of different positive strength conclude the same term, the
\* weaker one evaluated last
C1_Witness ==
    /\ loaded
    /\ rules["SD"]["MG"] = rules["MD"]["NG"]
    /\ Fired("MD", "NG") > 0
    /\ Fired("MD", "NG") < Fired("SD", "MG")

\* C2: at every sample point t of the aggregated surface, y is the maximum
\* over the five output terms of min(activation[term], triangleMf(t, term's
\* triangle)), and lies in [0,1].
C2_SurfaceIsMaxOfClipped ==
    loaded =>
        \A i \in DOMAIN aggregatedPoints :
            LET p == aggregatedPoints[i]
            IN  /\ p.y \in 0..DegreeScale
                /\ p.y = SetMax({Min(outputActivation[term],
                                     Fixed(triangleMf(p.x, InUnits(timeMf[term])))) :
                                    term \in TimeTerms})

\* one sample point is clipped at an activation level below 1 and another
\* follows a term's own membership function below its activation level
C2_Witness ==
    /\ loaded
    /\ \E i, j \in DOMAIN aggregatedPoints : \E term \in TimeTerms :
        LET mf(k) == Fixed(triangleMf(aggregatedPoints[k].x, InUnits(timeMf[term])))
        IN  /\ outputActivation[term] < DegreeScale
            /\ aggregatedPoints[i].y = outputActivation[term]
            /\ outputActivation[term] < mf(i)
            /\ aggregatedPoints[j].y = mf(j)
            /\ 0 < mf(j)
            /\ mf(j) < outputActivation[term]

\* C3: the aggregated surface has exactly samples + 1 = 121 points, its x
\* values increase strictly by the constant step 60 / 120, the first is 0
\* and the last is 60.
C3_SurfaceSpansDomain ==
    loaded =>
        /\ Len(aggregatedPoints) = samples + 1
        /\ Len(aggregatedPoints) = 121
        /\ aggregatedPoints[1].x = 0
        /\ aggregatedPoints[Len(aggregatedPoints)].x = 60 * XScale
        /\ \A i \in 1..(Len(aggregatedPoints) - 1) :
            /\ aggregatedPoints[i].x < aggregatedPoints[i + 1].x
            /\ (aggregatedPoints[i + 1].x - aggregatedPoints[i].x) * samples
                  = (60 - 0) * XScale

C3_Witness ==
    /\ loaded
    /\ Len(aggregatedPoints) > 0
    /\ \E i \in DOMAIN aggregatedPoints : aggregatedPoints[i].y > 0

\* C4: when every dirt degree and every grease degree is 0, the denominator
\* is 0 and the crisp output is exactly the fallback 30, not NaN.
C4_AllZeroGivesFallback ==
    (loaded /\ AllZero(dirtDegrees) /\ AllZero(greaseDegrees)) =>
        /\ denominator = 0
        /\ cog = Fallback
        /\ outputTimeSpan = 100 * fallback

C4_Witness ==
    /\ loaded
    /\ AllZero(dirtDegrees)
    /\ AllZero(greaseDegrees)
    /\ dirtSlider <= 0 - 100
    /\ greaseSlider >= 300

\* C5, as stated: the fallback is returned if and only if both the dirt
\* input and the grease input have all-zero degrees.
C5_FallbackIffBothAllZero ==
    loaded =>
        ((denominator = 0 /\ cog = Fallback)
            <=> (AllZero(dirtDegrees) /\ AllZero(greaseDegrees)))

\* C5, amended: the denominator is 0 and the fallback 30 is returned exactly
\* when no rule fired, and no rule fires exactly when at least one of the
\* two inputs has all-zero degrees.
C5_FallbackIffSomeAllZero ==
    loaded =>
        /\ (denominator = 0) <=> (ActiveRules = {})
        /\ (cog = Fallback) <=> (denominator = 0)
        /\ (ActiveRules = {}) <=> (AllZero(dirtDegrees) \/ AllZero(greaseDegrees))

\* one input outside every support, the other at a peak
C5_Witness ==
    /\ loaded
    /\ AllZero(dirtDegrees)
    /\ \E s \in GreaseTerms : greaseDegrees[s] = DegreeScale
    /\ cog = Fallback

\* C6, as stated: for a <= b <= c (a = b and b = c included)
\* triangleMf(x, [a,b,c]) is 0 if x <= a or x >= c, (x-a)/(b-a) if
\* a < x <= b, (c-x)/(c-b) if b < x < c; it never divides by zero, the
\* result is in [0,1], and for a < b < c the value at b is 1.
C6_TriangleMfCases ==
    Len(mfResult) > 0 =>
        LET x == mfArgs.x
            a == mfArgs.points[1]
            b == mfArgs.points[2]
            c == mfArgs.points[3]
            n == mfResult[1]
            d == mfResult[2]
        IN  /\ d > 0
            /\ (x <= a \/ x >= c) => n = 0
            /\ (a < x /\ x <= b) => n * (b - a) = (x - a) * d
            /\ (b < x /\ x < c) => n * (c - b) = (c - x) * d
            /\ 0 <= n /\ n <= d
            /\ (a < b /\ b < c /\ x = b) => n = d

\* C6, amended: the first case takes precedence over the second:
\* triangleMf(x, [a,b,c]) is 0 if x <= a or x >= c, (x-a)/(b-a) if
\* a < x <= b and x < c, (c-x)/(c-b) if b < x < c (so for b = c the value at
\* x = b is 0); no divisor is zero, the result is in [0,1], and for
\* a < b < c the value at b is 1.
C6_TriangleMfOrderedCases ==
    Len(mfResult) > 0 =>
        LET x == mfArgs.x
            a == mfArgs.points[1]
            b == mfArgs.points[2]
            c == mfArgs.points[3]
            n == mfResult[1]
            d == mfResult[2]
        IN  /\ d > 0
            /\ (x <= a \/ x >= c) => n = 0
            /\ (a < x /\ x <= b /\ x < c) => n * (b - a) = (x - a) * d
            /\ (b < x /\ x < c) => n * (c - b) = (c - x) * d
            /\ 0 <= n /\ n <= d
            /\ (a < b /\ b < c /\ x = b) => n = d

\* a triangle with b = c evaluated at its vertical edge x = b
C6_Witness ==
    /\ Len(mfResult) > 0
    /\ mfArgs.points[1] < mfArgs.points[2]
    /\ mfArgs.points[2] = mfArgs.points[3]
    /\ mfArgs.x = mfArgs.points[2]
    /\ mfResult[1] = 0

\* C7: with dirt = 0, grease = 0 the activation is VS = 1 and 0 elsewhere and
\* the crisp output is in [0,10); with dirt = 200, grease = 200 it is VL = 1
\* and 0 elsewhere and the crisp output is in (40,60].
C7_PeaksActivateOneTerm ==
    /\ (loaded /\ dirtSlider = 0 /\ greaseSlider = 0) =>
        /\ outputActivation = [term \in TimeTerms |->
                                  IF term = "VS" THEN DegreeScale ELSE 0]
        /\ cog.den > 0
        /\ 0 * cog.den <= cog.num
        /\ cog.num < 10 * cog.den
    /\ (loaded /\ dirtSlider = 200 /\ greaseSlider = 200) =>
        /\ outputActivation = [term \in TimeTerms |->
                                  IF term = "VL" THEN DegreeScale ELSE 0]
        /\ cog.den > 0
        /\ 40 * cog.den < cog.num
        /\ cog.num <= 60 * cog.den

C7_Witness ==
    /\ loaded
    /\ dirtSlider = 200
    /\ greaseSlider = 200
    /\ outputActivation["VL"] = DegreeScale

\* the parts of C8 that do not count the rules: at inputs in {50, 150} each
\* variable has two terms at 0.5 and one at 0, every active rule has
\* strength <= 0.5, and the crisp output lies between the lowest and the
\* highest peak of the activated output terms
MidwayBlend ==
    /\ \A degrees \in {dirtDegrees, greaseDegrees} :
        /\ Cardinality({s \in DOMAIN degrees : 2 * degrees[s] = DegreeScale}) = 2
        /\ Cardinality({s \in DOMAIN degrees : degrees[s] = 0}) = 1
    /\ \A r \in ActiveRules : 2 * Fired(r[1], r[2]) <= DegreeScale
    /\ cog.den > 0
    /\ SetMin({timeMf[term][2] : term \in Activated}) * cog.den < cog.num
    /\ cog.num < SetMax({timeMf[term][2] : term \in Activated}) * cog.den

Midway == loaded /\ dirtSlider \in {50, 150} /\ greaseSlider \in {50, 150}

\* C8, as stated: at inputs midway between adjacent peaks exactly two rules
\* are active.
C8_MidwayTwoRules ==
    Midway => (MidwayBlend /\ Cardinality(ActiveRules) = 2)

\* C8, amended: at inputs midway between adjacent peaks (each in {50, 150})
\* each variable has exactly two terms at 0.5 and the third at 0, exactly
\* four rules are active, each with strength <= 0.5, and the crisp output
\* lies between the peaks of the activated output terms.
C8_MidwayFourRules ==
    Midway => (MidwayBlend /\ Cardinality(ActiveRules) = 4)

C8_Witness ==
    /\ Midway
    /\ dirtSlider = 50
    /\ greaseSlider = 150
    /\ Cardinality(Activated) = 3

\* C9: the static configuration never changes, and an invocation with the
\* inputs of an earlier one yields the outputs of the earlier one, whatever
\* ran in between.
C9_StaticConfigSameInputsSameOutputs ==
    /\ dirtMf = dirtMfConfig
    /\ greaseMf = greaseMfConfig
    /\ timeMf = timeMfConfig
    /\ rules = rulesConfig
    /\ \A k \in DOMAIN snap :
        (snap[k].inv.dirt = dirtSlider /\ snap[k].inv.grease = greaseSlider)
            => snap[k].inv = Invocation

\* the inputs are back at a remembered invocation's after having left it
C9_Witness ==
    /\ loaded
    /\ Len(snap) = 1
    /\ snap[1].left
    /\ snap[1].inv.dirt = dirtSlider
    /\ snap[1].inv.grease = greaseSlider
    /\ snap[1].inv.cog # Fallback

\* C10: the crisp output lies in [0, 60]: it is the fallback 30 or the
\* average, with non-negative weights of positive total, of sample points
\* in [0, 60].
C10_OutputInDomain ==
    loaded =>
        /\ cog.den > 0
        /\ 0 * cog.den <= cog.num
        /\ cog.num <= 60 * cog.den
        /\ cog = Fallback \/ cog = Quotient(numerator, denominator)
        /\ cog # Fallback => denominator > 0
        /\ \A i \in DOMAIN aggregatedPoints :
            /\ aggregatedPoints[i].y >= 0
            /\ aggregatedPoints[i].x >= 0 * XScale
            /\ aggregatedPoints[i].x <= 60 * XScale

C10_Witness ==
    /\ loaded
    /\ denominator > 0
    /\ cog = Quotient(numerator, denominator)
    /\ cog.num * 2 > 60 * cog.den

=============================================================================
